---- MODULE Spec2Model ----
(***************************************************************************)
(* Model of tiberius src/protocol/stream/query.rs: QueryStream, the        *)
(* lookahead state machine that splits a token sequence into result sets,  *)
(* and QueryResult, the caller-facing wrapper around it.                   *)
(*                                                                         *)
(* The token source is a scripted sequence `tokens` of source items, each  *)
(* an Ok(ReceivedToken) or an Err; `pos` counts the items taken from it.   *)
(* A source that has delivered all its items reports end-of-stream (None). *)
(* A NewResultset token carries a one-column schema named after its wire   *)
(* index, a Row token carries its wire index as data, so every schema and  *)
(* every row is distinguishable from every other.                          *)
(***************************************************************************)
EXTENDS Integers, Sequences, FiniteSets, TLC

VARIABLES
    tokens,            \* the items the token source delivers, in wire order
    pos,               \* how many items have been taken from the source
    state,             \* QueryStream.state
    current_columns,   \* QueryStream.current_columns : <<>> (None) or <<schema>>
    previous_columns,  \* QueryStream.previous_columns: <<>> (None) or <<schema>>
    phase,             \* where the handle is in its life
    out,               \* history: the items poll_next has returned (Pending left out),
                       \*          with a mark where next_resultset returned true
    call,              \* history: the last operation, the stream before it, its return
    entered            \* history: wire index of the header of the result set the caller is in

vars == <<tokens, pos, state, current_columns, previous_columns, phase, out, call, entered>>

\* Longest token sequence the source is scripted with.
MaxLen == 5

----------------------------------------------------------------------------
(* Source items *)

DoneFamily == {"Done", "DoneProc", "DoneInProc"}

\* The shapes a source item can have: the token kinds poll_next and
\* fetch_metadata tell apart, any other ReceivedToken variant ("Other"), and
\* an error of the source ("Err"). DoneInProc shares its arm with DoneProc
\* in both functions, so the scripts write DoneProc for either.
\* fetch_metadata tells Done from DoneProc; poll_next has one arm for all
\* terminators, so behind the first NewResultset, where only poll_next
\* reads, the scripts write Done for every terminator.
Shapes ==
    [kind : {"NewResultset", "Row", "Other", "Err"}, more : {FALSE}]
      \cup [kind : {"Done", "DoneProc"}, more : BOOLEAN]

\* The item of shape sh delivered at wire index i.
Item(sh, i) ==
    [kind |-> sh.kind, more |-> sh.more,
     columns |-> IF sh.kind = "NewResultset" THEN <<i>> ELSE <<>>,
     data |-> IF sh.kind = "Row" THEN i ELSE 0]

\* The script that delivers the shapes sh in order.
Script(sh) == [i \in 1..Len(sh) |-> Item(sh[i], i)]

\* DoneProc is written only ahead of the first NewResultset.
Scripted(sh) ==
    \A i \in DOMAIN sh :
        sh[i].kind = "DoneProc" => \A j \in 1..(i - 1) : sh[j].kind # "NewResultset"

----------------------------------------------------------------------------
(* QueryStream *)

None == <<>>
Some(x) == <<x>>

\* The fields of a QueryStream together with the source's read position.
Stream == [state |-> state, cur |-> current_columns, prev |-> previous_columns, pos |-> pos]

\* QueryStream::new
NewStream == [state |-> "Initial", cur |-> None, prev |-> None, pos |-> 0]

\* The history `call` of a handle nothing has been called on yet.
NoCall == [op |-> "new", pre |-> NewStream, ret |-> "None"]

\* store_columns that leaves the state alone.
store_columns_stay(s, columns) ==
    [s EXCEPT !.prev  = IF s.cur # None THEN s.cur ELSE @,
              !.cur   = Some(columns)]

\* store_columns that moves to HasNext whatever the state is.
store_columns_always(s, columns) ==
    [s EXCEPT !.prev  = IF s.cur # None THEN s.cur ELSE @,
              !.cur   = Some(columns),
              !.state = "HasNext"]

\* store_columns that advances to the next result set by itself.
store_columns_advance(s, columns) ==
    [s EXCEPT !.prev  = IF s.cur # None THEN s.cur ELSE @,
              !.cur   = Some(columns),
              !.state = IF s.state = "HasPotentiallyNext" THEN "Initial" ELSE @]

\* store_columns that overwrites the current slot without keeping the schema
\* it held.
store_columns_forget(s, columns) ==
    [s EXCEPT !.cur   = Some(columns),
              !.state = IF s.state = "HasPotentiallyNext" THEN "HasNext" ELSE @]

\* QueryStream::store_columns
store_columns(s, columns) ==
    [s EXCEPT !.prev  = IF s.cur # None THEN s.cur ELSE @,
              !.cur   = Some(columns),
              !.state = IF s.state = "HasPotentiallyNext" THEN "HasNext" ELSE @]

\* columns that reads the current slot in every state.
columns_current(s) ==
    IF s.cur = None THEN "Panic" ELSE s.cur[1]

\* QueryStream::columns; Panic where the slot it unwraps is None.
columns(s) ==
    IF s.state = "HasNext"
    THEN IF s.prev = None THEN "Panic" ELSE s.prev[1]
    ELSE IF s.cur = None THEN "Panic" ELSE s.cur[1]

\* done_state that takes every terminator for the last one.
done_state_final(more) == "Done"

\* The state a terminator token leaves the stream in.
done_state(more) == IF ~more THEN "Done" ELSE "HasPotentiallyNext"

\* What poll_next returns.
EOS == [tag |-> "EOS", columns |-> <<>>, data |-> 0]
Pending == [tag |-> "Pending", columns |-> <<>>, data |-> 0]
Panic == [tag |-> "Panic", columns |-> <<>>, data |-> 0]
ErrItem(i) == [tag |-> "Err", columns |-> <<>>, data |-> i]
RowItem(cols, data) == [tag |-> "Row", columns |-> cols, data |-> data]

\* The mark the history keeps of a next_resultset that returned true.
Gate == [tag |-> "Gate", columns |-> <<>>, data |-> 0]

\* poll_row that builds the Row from the previous slot when it is filled.
poll_row_previous(s, t) ==
    IF s.cur = None THEN Panic
    ELSE RowItem(IF s.prev # None THEN s.prev[1] ELSE s.cur[1], t.data)

\* The Row arm of poll_next: the item it returns for the Row token t.
poll_row(s, t) ==
    IF s.cur = None THEN Panic ELSE RowItem(s.cur[1], t.data)

\* may_poll that only Done blocks.
may_poll_until_done(s) == s.state # "Done"

\* Whether poll_next reads the source in this state.
may_poll(s) == s.state \in {"Initial", "HasPotentiallyNext"}

\* poll_token that passes over a Row token met in HasPotentiallyNext.
poll_token_skip_row(s, t) ==
    CASE t.kind = "Err" -> [s |-> s, go |-> FALSE, item |-> ErrItem(s.pos)]
      [] t.kind = "NewResultset" ->
            [s |-> store_columns(s, t.columns), go |-> TRUE, item |-> Pending]
      [] t.kind = "Row" ->
            [s |-> s, go |-> s.state = "HasPotentiallyNext", item |-> poll_row(s, t)]
      [] t.kind \in DoneFamily ->
            [s |-> [s EXCEPT !.state = done_state(t.more)], go |-> TRUE, item |-> Pending]
      [] OTHER -> [s |-> s, go |-> FALSE, item |-> Panic]

\* What poll_next does with the source item t it has just taken (s.pos
\* counts it): the stream afterwards, whether the loop goes on (continue)
\* and, where it does not, the item returned.
poll_token(s, t) ==
    CASE t.kind = "Err" -> [s |-> s, go |-> FALSE, item |-> ErrItem(s.pos)]
      [] t.kind = "NewResultset" ->
            [s |-> store_columns(s, t.columns), go |-> TRUE, item |-> Pending]
      [] t.kind = "Row" -> [s |-> s, go |-> FALSE, item |-> poll_row(s, t)]
      [] t.kind \in DoneFamily ->
            [s |-> [s EXCEPT !.state = done_state(t.more)], go |-> TRUE, item |-> Pending]
      [] OTHER -> [s |-> s, go |-> FALSE, item |-> Panic]

\* QueryStream::poll_next, with `ready` the number of items the source can
\* hand over before it reports Pending.
RECURSIVE poll_next(_, _)
poll_next(s, ready) ==
    IF ~may_poll(s) THEN [s |-> s, item |-> EOS]
    ELSE IF s.pos >= Len(tokens) THEN [s |-> s, item |-> EOS]
    ELSE IF ready = 0 THEN [s |-> s, item |-> Pending]
    ELSE LET r == poll_token([s EXCEPT !.pos = @ + 1], tokens[s.pos + 1])
         IN  IF r.go THEN poll_next(r.s, ready - 1) ELSE [s |-> r.s, item |-> r.item]

\* QueryStream::fetch_metadata. res is "Ok", "Err" (a source error),
\* "Protocol" (Error::Protocol) or "Spin" (the loop never ends).
RECURSIVE fetch_metadata(_)
fetch_metadata(s) ==
    IF s.pos >= Len(tokens) THEN [s |-> s, res |-> "Spin"]
    ELSE LET t  == tokens[s.pos + 1]
             s1 == [s EXCEPT !.pos = @ + 1]
         IN  CASE t.kind = "Err" -> [s |-> s1, res |-> "Err"]
               [] t.kind = "NewResultset" -> [s |-> store_columns(s1, t.columns), res |-> "Ok"]
               [] t.kind = "Done" -> [s |-> s1, res |-> "Protocol"]
               [] OTHER -> fetch_metadata(s1)

\* next_resultset that resets the state whether or not it was HasNext.
next_resultset_reset(s) ==
    [s |-> [s EXCEPT !.state = "Initial"], ret |-> (s.state = "HasNext")]

\* QueryResult::next_resultset
next_resultset(s) ==
    IF s.state = "HasNext"
    THEN [s |-> [s EXCEPT !.state = "Initial"], ret |-> TRUE]
    ELSE [s |-> s, ret |-> FALSE]

\* try_collect over the stream (by_ref().try_collect().await): polls until
\* end-of-stream and gathers the rows; stops at the first error. The awaits
\* wait out every Pending, so the source hands over all it has. `trace` is
\* what the polls returned.
RECURSIVE try_collect(_, _, _)
try_collect(s, rows, trace) ==
    LET r == poll_next(s, Len(tokens))
    IN  CASE r.item.tag = "Row" ->
                 try_collect(r.s, Append(rows, r.item), Append(trace, r.item))
          [] r.item.tag = "EOS" ->
                 [s |-> r.s, res |-> "Ok", rows |-> rows, trace |-> Append(trace, r.item)]
          [] r.item.tag = "Err" ->
                 [s |-> r.s, res |-> "Err", rows |-> <<>>, trace |-> Append(trace, r.item)]
          [] OTHER ->
                 [s |-> r.s, res |-> "Panic", rows |-> <<>>, trace |-> Append(trace, r.item)]

\* The while loop of QueryResult::into_vec.
RECURSIVE into_vec_loop(_, _, _)
into_vec_loop(s, results, trace) ==
    LET n == next_resultset(s)
    IN  IF ~n.ret THEN [s |-> n.s, res |-> "Ok", results |-> results, trace |-> trace]
        ELSE LET c == try_collect(n.s, <<>>, Append(trace, Gate))
             IN  IF c.res # "Ok"
                 THEN [s |-> c.s, res |-> c.res, results |-> <<>>, trace |-> c.trace]
                 ELSE into_vec_loop(c.s, Append(results, c.rows), c.trace)

\* QueryResult::into_vec
into_vec(s) ==
    LET first == try_collect(s, <<>>, <<>>)
    IN  IF first.res # "Ok"
        THEN [s |-> first.s, res |-> first.res, results |-> <<>>, trace |-> first.trace]
        ELSE into_vec_loop(first.s, <<first.rows>>, first.trace)

\* QueryResult::into_first
into_first(s) == try_collect(s, <<>>, <<>>)

----------------------------------------------------------------------------
(* The handle's life: the client builds it, fetches the metadata and hands *)
(* it to the caller, who polls, asks for the columns and advances.         *)

\* The history o with item added: a Pending is not an item of the stream,
\* and an end-of-stream that repeats the last one is not written twice.
Record(o, item) ==
    IF item.tag = "Pending" THEN o
    ELSE IF item.tag = "EOS" /\ o # <<>> /\ o[Len(o)].tag = "EOS" THEN o
    ELSE Append(o, item)

RECURSIVE RecordAll(_, _)
RecordAll(o, items) ==
    IF items = <<>> THEN o ELSE RecordAll(Record(o, Head(items)), Tail(items))

SetStream(s) ==
    /\ state' = s.state
    /\ current_columns' = s.cur
    /\ previous_columns' = s.prev
    /\ pos' = s.pos

Init ==
    /\ \E n \in 0..MaxLen : \E sh \in [1..n -> Shapes] :
          Scripted(sh) /\ tokens = Script(sh)
    /\ pos = NewStream.pos
    /\ state = NewStream.state
    /\ current_columns = NewStream.cur
    /\ previous_columns = NewStream.prev
    /\ phase = "new"
    /\ out = <<>>
    /\ call = [op |-> "new", pre |-> NewStream, ret |-> "None"]
    /\ entered = 0

FetchMetadata ==
    /\ phase = "new"
    /\ LET r == fetch_metadata(Stream)
       IN  /\ SetStream(r.s)
           /\ phase' = CASE r.res = "Ok" -> "open"
                         [] r.res = "Spin" -> "spinning"
                         [] OTHER -> "failed"
           /\ call' = [op |-> "fetch_metadata", pre |-> Stream, ret |-> r.res]
           /\ entered' = IF r.res = "Ok" THEN r.s.pos ELSE entered
    /\ UNCHANGED <<tokens, out>>

PollNext ==
    /\ phase = "open"
    /\ \E ready \in 0..(Len(tokens) - pos) :
          LET r == poll_next(Stream, ready)
          IN  /\ SetStream(r.s)
              /\ phase' = IF r.item.tag = "Panic" THEN "panicked" ELSE phase
              /\ out' = Record(out, r.item)
              /\ call' = [op |-> "poll_next", pre |-> Stream, ret |-> r.item]
    /\ UNCHANGED <<tokens, entered>>

NextResultset ==
    /\ phase = "open"
    /\ LET r == next_resultset(Stream)
       IN  /\ SetStream(r.s)
           /\ call' = [op |-> "next_resultset", pre |-> Stream, ret |-> r.ret]
           /\ entered' = IF r.ret THEN pos ELSE entered
           /\ out' = IF r.ret THEN Append(out, Gate) ELSE out
    /\ UNCHANGED <<tokens, phase>>

Columns ==
    /\ phase = "open"
    /\ LET c == columns(Stream)
       IN  /\ phase' = IF c = "Panic" THEN "panicked" ELSE phase
           /\ call' = [op |-> "columns", pre |-> Stream, ret |-> c]
    /\ UNCHANGED <<tokens, pos, state, current_columns, previous_columns, out, entered>>

IntoVec ==
    /\ phase = "open"
    /\ LET r == into_vec(Stream)
       IN  /\ SetStream(r.s)
           /\ phase' = IF r.res = "Panic" THEN "panicked" ELSE "consumed"
           /\ out' = RecordAll(out, r.trace)
           /\ call' = [op |-> "into_vec", pre |-> Stream,
                       ret |-> [res |-> r.res, results |-> r.results]]
    /\ UNCHANGED <<tokens, entered>>

IntoFirst ==
    /\ phase = "open"
    /\ LET r == into_first(Stream)
       IN  /\ SetStream(r.s)
           /\ phase' = IF r.res = "Panic" THEN "panicked" ELSE "consumed"
           /\ out' = RecordAll(out, r.trace)
           /\ call' = [op |-> "into_first", pre |-> Stream,
                       ret |-> [res |-> r.res, rows |-> r.rows]]
    /\ UNCHANGED <<tokens, entered>>

Next ==
    \/ FetchMetadata
    \/ PollNext
    \/ NextResultset
    \/ Columns
    \/ IntoVec
    \/ IntoFirst

Spec == Init /\ [][Next]_vars

----------------------------------------------------------------------------
(* What the wire holds, read off `tokens` alone *)

Max(S) == CHOOSE x \in S : \A y \in S : y <= x
Min(S) == CHOOSE x \in S : \A y \in S : x <= y

\* The wire indices in a..b that hold a token of kind k / a terminator.
KindIn(k, a, b) == {i \in a..b : i \in DOMAIN tokens /\ tokens[i].kind = k}
TermIn(a, b) == {i \in a..b : i \in DOMAIN tokens /\ tokens[i].kind \in DoneFamily}

\* The last NewResultset token among the first n tokens (0: none).
LastHeader(n) ==
    IF KindIn("NewResultset", 1, n) = {} THEN 0 ELSE Max(KindIn("NewResultset", 1, n))

\* The rows poll_next has returned, in order.
Rows(o) == SelectSeq(o, LAMBDA x : x.tag = "Row")

----------------------------------------------------------------------------
(* C1 *)

\* C1: every Row that poll_next yields carries the schema of the most recent
\* NewResultset token that precedes its Row token on the wire.
C1_RowSchema ==
    \A i \in DOMAIN out :
        out[i].tag = "Row" =>
            /\ LastHeader(out[i].data) > 0
            /\ out[i].columns = tokens[LastHeader(out[i].data)].columns

\* Rows of two result sets have been yielded, the caller having advanced
\* through next_resultset in between.
C1_Witness ==
    /\ phase = "open"
    /\ \E i, j \in DOMAIN out :
          /\ i < j
          /\ out[i].tag = "Row" /\ out[j].tag = "Row"
          /\ out[i].columns # out[j].columns
          /\ \E k \in (i + 1)..(j - 1) : out[k].tag = "Gate"

----------------------------------------------------------------------------
(* C2 *)

----------------------------------------------------------------------------
(* C3 *)

\* C3: a poll_next made in state HasNext or Done returns end-of-stream, takes
\* no token from the source and leaves the state and both schema slots as
\* they were; nothing the caller does leaves Done or adds a row once in Done.
C3_BlockedPoll ==
    /\ (call.op = "poll_next" /\ call.pre.state \in {"HasNext", "Done"}) =>
          /\ call.ret = EOS
          /\ Stream = call.pre
    /\ (call.op \in {"poll_next", "next_resultset", "columns", "into_vec", "into_first"}
          /\ call.pre.state = "Done") =>
          /\ Stream = call.pre
          /\ out # <<>> /\ out[Len(out)].tag = "EOS"

\* A poll was made in HasNext with tokens still unread.
C3_Witness ==
    /\ call.op = "poll_next"
    /\ call.pre.state = "HasNext"
    /\ pos < Len(tokens)

----------------------------------------------------------------------------
(* C4 *)

\* C4: next_resultset returns true exactly when called in HasNext and then
\* leaves state Initial with the fetched header in the current slot and the
\* read position where it was; HasNext is only ever entered by poll_next
\* taking a NewResultset token in HasPotentiallyNext; a MORE terminator
\* followed directly by a terminator without MORE leaves the stream Done.
C4_Gate ==
    /\ call.op = "next_resultset" =>
          /\ call.ret = (call.pre.state = "HasNext")
          /\ call.ret =>
                /\ state = "Initial"
                /\ pos = call.pre.pos
                /\ tokens[pos].kind = "NewResultset"
                /\ current_columns = Some(tokens[pos].columns)
    /\ state = "HasNext" =>
          /\ tokens[pos].kind = "NewResultset"
          /\ \E d \in TermIn(entered + 1, pos - 1) :
                /\ tokens[d].more
                /\ TermIn(d + 1, pos) = {}
                /\ KindIn("NewResultset", d + 1, pos - 1) = {}
    /\ (state = "HasNext" /\ call.pre.state # "HasNext") =>
          call.op \in {"poll_next", "into_vec", "into_first"}
    /\ (/\ phase = "open"
        /\ pos - 1 > entered
        /\ tokens[pos].kind \in DoneFamily /\ ~tokens[pos].more
        /\ tokens[pos - 1].kind \in DoneFamily /\ tokens[pos - 1].more) =>
          /\ state = "Done"
          /\ call.op = "next_resultset" => ~call.ret

\* next_resultset was called after a MORE terminator and a terminator
\* without MORE ended the stream.
C4_Witness ==
    /\ phase = "open"
    /\ pos - 1 > entered
    /\ tokens[pos].kind \in DoneFamily /\ ~tokens[pos].more
    /\ tokens[pos - 1].kind \in DoneFamily /\ tokens[pos - 1].more
    /\ call.op = "next_resultset"

----------------------------------------------------------------------------
(* C5 *)

\* C5: next_resultset called in a state other than HasNext returns false and
\* changes neither the state, nor the schema slots, nor the read position;
\* after a call that returned true the state is not HasNext, so the call
\* that follows it returns false.
C5_Idempotent ==
    /\ (call.op = "next_resultset" /\ call.pre.state # "HasNext") =>
          /\ call.ret = FALSE
          /\ Stream = call.pre
    /\ (call.op = "next_resultset" /\ call.ret = TRUE) =>
          /\ state # "HasNext"
          /\ next_resultset(Stream).ret = FALSE

\* next_resultset was called in HasPotentiallyNext, before the result set
\* was read to its end.
C5_Witness ==
    /\ call.op = "next_resultset"
    /\ call.pre.state = "HasPotentiallyNext"
    /\ pos < Len(tokens)

----------------------------------------------------------------------------
(* C6 *)

\* poll_next has just returned the end-of-stream that closes the result set
\* the caller is in.
Closed ==
    /\ phase = "open"
    /\ call.op = "poll_next" /\ call.ret = EOS
    /\ state \in {"HasNext", "Done"}
    /\ out # <<>> /\ out[Len(out)].tag = "EOS"

\* The data of the rows yielded since the caller entered the result set:
\* since the handle was handed out or next_resultset last returned true.
YieldedSinceEntry ==
    LET n == Len(out)
        p == Max({0} \cup {i \in 1..n : out[i].tag = "Gate"})
    IN  {out[i].data : i \in {j \in (p + 1)..n : out[j].tag = "Row"}}

\* The terminator of the result set whose header is at wire index h.
TerminatorOf(h) == Min(TermIn(h + 1, Len(tokens)))

\* C6 as stated: at the end-of-stream that closes a result set, the rows
\* yielded since it was entered are as many as the Row tokens between its
\* NewResultset token and its terminator.
C6_AsStated ==
    Closed =>
        Cardinality(YieldedSinceEntry) =
            Cardinality(KindIn("Row", entered + 1, TerminatorOf(entered) - 1))

\* C6, amended: at the end-of-stream that closes a result set, the rows
\* yielded since it was entered are the Row tokens between its NewResultset
\* token and the token poll_next stopped at; they are as many as the Row
\* tokens up to its terminator exactly when no Row token lies between that
\* terminator and the token poll_next stopped at.
C6_RowCount ==
    Closed =>
        /\ TermIn(entered + 1, pos) # {}
        /\ YieldedSinceEntry = KindIn("Row", entered + 1, pos)
        /\ (Cardinality(YieldedSinceEntry) =
               Cardinality(KindIn("Row", entered + 1, TerminatorOf(entered) - 1)))
             <=> (KindIn("Row", TerminatorOf(entered) + 1, pos) = {})

\* A result set with a row in it was closed by the header of the next one.
C6_Witness ==
    /\ Closed
    /\ state = "HasNext"
    /\ YieldedSinceEntry # {}
    /\ KindIn("Row", TerminatorOf(entered) + 1, pos) = {}

----------------------------------------------------------------------------
(* C7 *)

\* The wire indices of the Row tokens in a..b, in wire order.
WireRows(a, b) ==
    SelectSeq([i \in 1..Len(tokens) |-> i],
              LAMBDA i : a <= i /\ i <= b /\ tokens[i].kind = "Row")

\* The data of the rows yielded, in yield order.
YieldedData == [k \in 1..Len(Rows(out)) |-> Rows(out)[k].data]

IsPrefix(p, q) == Len(p) <= Len(q) /\ \A k \in 1..Len(p) : p[k] = q[k]

\* Two rows of the history that belong to different result sets.
Apart(i, j) ==
    /\ i < j
    /\ out[i].tag = "Row" /\ out[j].tag = "Row"
    /\ LastHeader(out[i].data) # LastHeader(out[j].data)

\* C7 as stated: the rows yielded are a prefix of the Row tokens of the
\* source, and between rows of two result sets there is an end-of-stream.
C7_AsStated ==
    /\ IsPrefix(YieldedData, WireRows(1, Len(tokens)))
    /\ \A i, j \in DOMAIN out :
          Apart(i, j) => \E k \in (i + 1)..(j - 1) : out[k].tag = "EOS"

\* C7, amended: the rows yielded are, in order, exactly the Row tokens taken
\* from the source behind the first NewResultset token (fetch_metadata passes
\* over the Row tokens ahead of it); between rows of two result sets there is
\* an end-of-stream and a next_resultset that returned true, provided a
\* terminator lies between the later result set's NewResultset token and the
\* NewResultset token before it.
C7_Order ==
    /\ phase \in {"new", "failed", "spinning"} => out = <<>>
    /\ phase \in {"open", "consumed", "panicked"} =>
          /\ KindIn("NewResultset", 1, pos) # {}
          /\ YieldedData = WireRows(Min(KindIn("NewResultset", 1, pos)) + 1, pos)
    /\ \A i, j \in DOMAIN out :
          (/\ Apart(i, j)
           /\ TermIn(LastHeader(LastHeader(out[j].data) - 1) + 1,
                     LastHeader(out[j].data) - 1) # {}) =>
             \E k \in (i + 1)..(j - 2) : out[k].tag = "EOS" /\ out[k + 1].tag = "Gate"

\* Rows of two result sets were yielded, an end-of-stream between them.
C7_Witness ==
    /\ phase = "open"
    /\ \E i, j \in DOMAIN out :
          /\ Apart(i, j)
          /\ \E k \in (i + 1)..(j - 1) : out[k].tag = "EOS"

----------------------------------------------------------------------------
(* C8 *)

Headers == KindIn("NewResultset", 1, Len(tokens))

\* The wire index of the i-th NewResultset token.
Header(i) == CHOOSE h \in Headers : Cardinality(KindIn("NewResultset", 1, h)) = i

\* The last wire index of the result set whose header is at h: the token
\* before its terminator, or the last token where the source ends first.
LastOf(h) ==
    IF TermIn(h + 1, Len(tokens)) = {} THEN Len(tokens) ELSE TerminatorOf(h) - 1

\* The data of a sequence of rows.
Data(rows) == [k \in 1..Len(rows) |-> rows[k].data]

RECURSIVE Concat(_)
Concat(seqs) == IF seqs = <<>> THEN <<>> ELSE Head(seqs) \o Concat(Tail(seqs))

\* into_vec was called on the handle as the client hands it out, and
\* returned Ok.
IntoVecDone ==
    /\ call.op = "into_vec"
    /\ call.ret.res = "Ok"
    /\ call.pre.state = "Initial"
    /\ call.pre.pos = Min(Headers)

\* The script is a batch of result sets, each with one header, its rows and
\* a terminator in this order, the terminator without MORE the last token.
Batch ==
    /\ \A h \in Headers : h # Min(Headers) => TermIn(LastHeader(h - 1) + 1, h - 1) # {}
    /\ \A r \in KindIn("Row", Min(Headers) + 1, Len(tokens)) :
          TermIn(LastHeader(r) + 1, r - 1) = {}
    /\ \A d \in TermIn(Min(Headers) + 1, Len(tokens)) : ~tokens[d].more => d = Len(tokens)

\* C8 as stated: into_vec returns as many row-sequences as the script has
\* NewResultset tokens, the i-th holding the Row tokens of the i-th result
\* set.
C8_AsStated ==
    IntoVecDone =>
        /\ Len(call.ret.results) = Cardinality(Headers)
        /\ \A i \in 1..Cardinality(Headers) :
              Data(call.ret.results[i]) = WireRows(Header(i) + 1, LastOf(Header(i)))

\* C8, amended: into_vec returns one row-sequence for the result set the
\* handle exposes and one more for every next_resultset that returns true;
\* together they are the Row tokens it took from the source, in wire order.
\* Where the script is a batch of result sets (one header each, the rows
\* between header and terminator, nothing behind the terminator without
\* MORE) these are as many sequences as there are NewResultset tokens and the
\* i-th holds the Row tokens of the i-th result set.
C8_IntoVec ==
    IntoVecDone =>
        /\ Len(call.ret.results) = 1 + Len(SelectSeq(out, LAMBDA x : x.tag = "Gate"))
        /\ Concat([i \in 1..Len(call.ret.results) |-> Data(call.ret.results[i])])
              = WireRows(Min(Headers) + 1, pos)
        /\ Batch =>
              /\ Len(call.ret.results) = Cardinality(Headers)
              /\ \A i \in 1..Cardinality(Headers) :
                    Data(call.ret.results[i]) = WireRows(Header(i) + 1, LastOf(Header(i)))

\* into_vec returned two result sets, a row in each.
C8_Witness ==
    /\ IntoVecDone
    /\ Batch
    /\ Len(call.ret.results) = 2
    /\ call.ret.results[1] # <<>>
    /\ call.ret.results[2] # <<>>

----------------------------------------------------------------------------
(* C9 *)

\* C9: once poll_next has returned an error of the source, the source is not
\* read again (the read position stays on the item that failed) and nothing
\* but end-of-stream follows the error: no row and no second error.
C9_Fused ==
    \A i \in DOMAIN out :
        out[i].tag = "Err" =>
            /\ pos = out[i].data
            /\ \A j \in (i + 1)..Len(out) : out[j].tag = "EOS"

----------------------------------------------------------------------------
(* C10 *)

\* The items fetch_metadata stops at according to C10: a NewResultset, a
\* terminator without MORE, an error of the source.
C10_Stops ==
    {i \in DOMAIN tokens :
        \/ tokens[i].kind \in {"NewResultset", "Err"}
        \/ tokens[i].kind \in DoneFamily /\ ~tokens[i].more}

\* C10: fetch_metadata passes over the tokens ahead of the first
\* NewResultset, stores its schema in the current slot and succeeds; it
\* fails with the protocol error exactly when a terminator without MORE comes
\* ahead of every NewResultset (and of every error of the source), so a
\* terminator with MORE ahead of the first NewResultset does not fail it.
C10_Metadata ==
    call.op = "fetch_metadata" =>
        /\ (call.ret = "Protocol") =
              (C10_Stops # {} /\ tokens[Min(C10_Stops)].kind \in DoneFamily)
        /\ (call.ret = "Ok") =
              (C10_Stops # {} /\ tokens[Min(C10_Stops)].kind = "NewResultset")
        /\ call.ret = "Ok" =>
              /\ pos = Min(C10_Stops)
              /\ current_columns = Some(tokens[pos].columns)

----------------------------------------------------------------------------
(* ExecuteResult: the stream of affected-row counts and its total().       *)
(* It owns nothing but the token source; the QueryStream fields stay as    *)
(* QueryStream::new would set them and are not used.                       *)

\* Longest token sequence the source of an ExecuteResult is scripted with.
MaxExecLen == 3

\* Width of the affected-row count, scaled down from the 64 bits of u64, and
\* the number of values a count can take.
Bits == 2
U64 == 2 ^ Bits

\* The counts the scripts carry: small ones and the largest value of the type.
Counts == {1, 2, U64 - 1}

\* The shapes of the source items ExecuteResult tells apart: DoneProc and
\* DoneInProc with or without FINAL, Done (its status is not looked at), any
\* other ReceivedToken variant and an error of the source.
ExecShapes ==
    [kind : {"DoneProc", "DoneInProc"}, final : BOOLEAN, done_rows : Counts]
      \cup [kind : {"Done"}, final : {FALSE}, done_rows : Counts]
      \cup [kind : {"Other", "Err"}, final : {FALSE}, done_rows : {0}]

\* What ExecuteResult::poll_next returns besides EOS, Pending and an error:
\* a count, or nothing at all where its loop never ends.
CountItem(n) == [tag |-> "Count", columns |-> <<>>, data |-> n]
Spin == [tag |-> "Spin", columns |-> <<>>, data |-> 0]

\* ExecuteResult::poll_next from read position p, with `ready` the number of
\* items the source can hand over before it reports Pending. A source that
\* has delivered all its items reports None, which the loop passes over
\* like any other token and polls again.
RECURSIVE execute_poll_next(_, _)
execute_poll_next(p, ready) ==
    IF p >= Len(tokens) THEN [pos |-> p, item |-> Spin]
    ELSE IF ready = 0 THEN [pos |-> p, item |-> Pending]
    ELSE LET t == tokens[p + 1]
         IN  CASE t.kind = "Err" -> [pos |-> p + 1, item |-> ErrItem(p + 1)]
               [] t.kind = "DoneProc" /\ t.final -> [pos |-> p + 1, item |-> EOS]
               [] t.kind = "DoneProc" -> [pos |-> p + 1, item |-> CountItem(t.done_rows)]
               [] t.kind = "DoneInProc" -> [pos |-> p + 1, item |-> CountItem(t.done_rows)]
               [] t.kind = "Done" -> [pos |-> p + 1, item |-> EOS]
               [] OTHER -> execute_poll_next(p + 1, ready - 1)

\* fold_step that counts the items instead of adding them up.
fold_step_count(acc, x, build) == [ok |-> TRUE, value |-> (acc + 1) % U64]

\* The closure of total(): acc + x on u64. Where the sum does not fit, a
\* build with overflow checks panics and one without wraps.
fold_step(acc, x, build) ==
    IF acc + x < U64 THEN [ok |-> TRUE, value |-> acc + x]
    ELSE IF build = "checked" THEN [ok |-> FALSE, value |-> 0]
    ELSE [ok |-> TRUE, value |-> (acc + x) % U64]

\* ExecuteResult::total: try_fold from 0 until end-of-stream or the first
\* error. res is "Ok", "Err", "Panic" or "Spin" (it never returns).
RECURSIVE total(_, _, _)
total(p, acc, build) ==
    LET r == execute_poll_next(p, Len(tokens))
    IN  CASE r.item.tag = "Count" ->
                 LET a == fold_step(acc, r.item.data, build)
                 IN  IF a.ok THEN total(r.pos, a.value, build)
                     ELSE [pos |-> r.pos, res |-> "Panic", value |-> 0]
          [] r.item.tag = "EOS" -> [pos |-> r.pos, res |-> "Ok", value |-> acc]
          [] r.item.tag = "Err" -> [pos |-> r.pos, res |-> "Err", value |-> 0]
          [] OTHER -> [pos |-> r.pos, res |-> "Spin", value |-> 0]

\* ExecuteResult::new
InitExecute ==
    /\ \E n \in 0..MaxExecLen : tokens \in [1..n -> ExecShapes]
    /\ pos = 0
    /\ state = NewStream.state
    /\ current_columns = NewStream.cur
    /\ previous_columns = NewStream.prev
    /\ phase = "execute"
    /\ out = <<>>
    /\ call = NoCall
    /\ entered = 0

ExecutePollNext ==
    /\ phase = "execute"
    /\ \E ready \in 0..(Len(tokens) - pos) :
          LET r == execute_poll_next(pos, ready)
          IN  /\ pos' = r.pos
              /\ phase' = IF r.item.tag = "Spin" THEN "spinning" ELSE phase
              /\ out' = Record(out, r.item)
              /\ call' = [op |-> "poll_next", pre |-> Stream, ret |-> r.item]
    /\ UNCHANGED <<tokens, state, current_columns, previous_columns, entered>>

Total ==
    /\ phase = "execute"
    /\ \E build \in {"checked", "wrapping"} :
          LET r == total(pos, 0, build)
          IN  /\ pos' = r.pos
              /\ phase' = CASE r.res = "Spin" -> "spinning"
                            [] r.res = "Panic" -> "panicked"
                            [] OTHER -> "consumed"
              /\ call' = [op |-> "total", pre |-> Stream,
                          ret |-> [res |-> r.res, value |-> r.value]]
    /\ UNCHANGED <<tokens, state, current_columns, previous_columns, out, entered>>

NextExecute ==
    \/ ExecutePollNext
    \/ Total

SpecExecute == InitExecute /\ [][NextExecute]_vars

----------------------------------------------------------------------------
(* C11 *)

\* The counts poll_next has returned, in order.
YieldedCounts ==
    LET c == SelectSeq(out, LAMBDA x : x.tag = "Count")
    IN  [k \in 1..Len(c) |-> c[k].data]

\* The counts carried by the DoneProc and DoneInProc tokens without FINAL
\* among the tokens a..b, in wire order.
CountsWithoutFinal(a, b) ==
    LET at == SelectSeq([i \in 1..Len(tokens) |-> i],
                        LAMBDA i : /\ a <= i /\ i <= b
                                   /\ tokens[i].kind \in {"DoneProc", "DoneInProc"}
                                   /\ ~tokens[i].final)
    IN  [k \in 1..Len(at) |-> tokens[at[k]].done_rows]

\* The tokens C11 ends the stream at: a DoneProc with FINAL, a plain Done.
C11_Ends ==
    {i \in DOMAIN tokens :
        \/ tokens[i].kind = "DoneProc" /\ tokens[i].final
        \/ tokens[i].kind = "Done"}

\* C11: up to its first end-of-stream, and as long as the source has not
\* failed, ExecuteResult has yielded exactly the counts of the DoneProc and
\* DoneInProc tokens without FINAL it has taken, in wire order; it returns
\* the end-of-stream at the first DoneProc with FINAL or plain Done, whose
\* count it does not yield.
C11_Counts ==
    (/\ phase = "execute"
     /\ \A i \in DOMAIN out : out[i].tag \in {"Count", "EOS"}
     /\ \A i \in DOMAIN out : out[i].tag = "EOS" => i = Len(out)) =>
        /\ YieldedCounts = CountsWithoutFinal(1, pos)
        /\ (out # <<>> /\ out[Len(out)].tag = "EOS") =>
              (C11_Ends # {} /\ pos = Min(C11_Ends))

----------------------------------------------------------------------------
(* C12 *)

\* Whether ExecuteResult yields the count of the token at wire index i.
Yields(i) ==
    \/ tokens[i].kind = "DoneInProc"
    \/ tokens[i].kind = "DoneProc" /\ ~tokens[i].final

\* The first item behind wire index a at which the stream ends or fails
\* (0: none).
StopAfter(a) ==
    LET stops == {i \in (a + 1)..Len(tokens) : ~Yields(i) /\ tokens[i].kind # "Other"}
    IN  IF stops = {} THEN 0 ELSE Min(stops)

\* The mathematical sum of the counts the stream yields from the tokens a..b.
RECURSIVE WireSum(_, _)
WireSum(a, b) ==
    IF a > b THEN 0
    ELSE (IF Yields(a) THEN tokens[a].done_rows ELSE 0) + WireSum(a + 1, b)

\* C12: total() reads the stream to its first end-of-stream and returns the
\* sum of the counts yielded up to there; where an error of the source comes
\* first it returns that error, not a sum; whenever the mathematical sum
\* fits the width of the count the value returned is that sum (where it does
\* not fit, total() panics or returns the sum wrapped around).
C12_Total ==
    (call.op = "total" /\ StopAfter(call.pre.pos) # 0) =>
        LET from == call.pre.pos
            stop == StopAfter(from)
            sum  == WireSum(from + 1, stop)
        IN  /\ call.ret.res \in {"Ok", "Err", "Panic"}
            /\ call.ret.res # "Panic" => pos = stop
            /\ call.ret.res = "Ok" =>
                  /\ tokens[stop].kind # "Err"
                  /\ call.ret.value = sum % U64
            /\ call.ret.res = "Err" => tokens[stop].kind = "Err"
            /\ call.ret.res = "Panic" => sum >= U64
            /\ sum < U64 =>
                  /\ call.ret.res = (IF tokens[stop].kind = "Err" THEN "Err" ELSE "Ok")
                  /\ call.ret.res = "Ok" => call.ret.value = sum

\* total() added the counts 1 and 2, which a DoneProc with FINAL follows,
\* up to 3.
C12_Witness ==
    /\ call.op = "total"
    /\ call.pre.pos = 0
    /\ Len(tokens) = 3
    /\ tokens[1].kind = "DoneInProc" /\ tokens[1].done_rows = 1
    /\ tokens[2].kind = "DoneInProc" /\ tokens[2].done_rows = 2
    /\ tokens[3].kind = "DoneProc" /\ tokens[3].final
    /\ call.ret = [res |-> "Ok", value |-> 3]

----------------------------------------------------------------------------
(* C13 *)

\* C13: every poll_next of an ExecuteResult comes back with a count, an
\* error, end-of-stream or Pending, also where the source has delivered all
\* its items without a Done or a DoneProc with FINAL among them: there it
\* returns end-of-stream.
C13_Finite ==
    call.op = "poll_next" =>
        /\ call.ret.tag \in {"Count", "Err", "EOS", "Pending"}
        /\ (call.pre.pos = Len(tokens)) => call.ret = EOS

----------------------------------------------------------------------------
(* C14 *)

\* The handle as the client hands it out for a batch of two result sets:
\* the first header read by fetch_metadata, nothing polled since.
C14_Fresh ==
    /\ phase = "open"
    /\ Cardinality(Headers) = 2
    /\ Batch
    /\ pos = Min(Headers)
    /\ out = <<>>

\* C14: on a batch of two result sets columns() called right after the query
\* returns the first schema, and called after a next_resultset() that no
\* poll precedes it returns the second schema.
C14_DocExample ==
    /\ (C14_Fresh /\ call.op = "columns") => call.ret = tokens[Min(Headers)].columns
    /\ (C14_Fresh /\ call.op = "next_resultset") =>
          columns(Stream) = tokens[Max(Headers)].columns

----------------------------------------------------------------------------
(* C15 *)

\* C15: a poll_next that takes a token of a kind other than NewResultset,
\* Row and the terminators passes over it and goes on with the token behind
\* it: it does not stop at that token unless the source has nothing more to
\* hand over, and then the state and the schema slots are those it had.
C15_Skip ==
    (/\ call.op = "poll_next"
     /\ pos = call.pre.pos + 1
     /\ tokens[pos].kind = "Other") =>
        /\ call.ret.tag \in {"EOS", "Pending"}
        /\ phase = "open"
        /\ Stream = [call.pre EXCEPT !.pos = pos]

----------------------------------------------------------------------------
(* C16 *)

\* The place of a state in the order Initial, HasPotentiallyNext, then
\* HasNext or Done.
Rank(st) ==
    CASE st = "Initial" -> 0
      [] st = "HasPotentiallyNext" -> 1
      [] OTHER -> 2

\* How many times next_resultset has returned true.
Gates(o) == Len(SelectSeq(o, LAMBDA x : x.tag = "Gate"))

\* C16: a step that changes the state moves it forward in the order Initial,
\* HasPotentiallyNext, then HasNext or Done, unless it is a next_resultset
\* that takes HasNext to Initial (by itself or inside into_vec); no step
\* leaves Done, and no poll (poll_next, into_first) leaves HasNext.
C16_Monotonic ==
    [][/\ state' # state =>
             \/ Rank(state) < Rank(state')
             \/ /\ call'.op = "next_resultset"
                /\ state = "HasNext" /\ state' = "Initial"
             \/ /\ call'.op = "into_vec"
                /\ Gates(out') > Gates(out)
       /\ state = "Done" => state' = "Done"
       /\ (state = "HasNext" /\ call'.op \in {"poll_next", "into_first"}) =>
             state' = "HasNext"]_vars

\* The stream went back from HasNext to Initial through next_resultset and
\* then forward again to Done.
C16_Witness ==
    /\ call.op = "poll_next"
    /\ call.pre.state \in {"Initial", "HasPotentiallyNext"}
    /\ state = "Done"
    /\ Gates(out) > 0

----------------------------------------------------------------------------
(* C17 *)

\* C17: the slot an operation unwraps is filled. In HasNext the previous
\* slot is defined and columns() does not fail; the handle the caller holds
\* has its current slot defined, so columns() does not fail in the other
\* states either and no poll fails at a Row token; every Row yielded
\* carries a schema. This holds whatever tokens come ahead of the first
\* NewResultset, terminators with MORE among them.
C17_Slots ==
    /\ state = "HasNext" =>
          /\ previous_columns # None
          /\ columns(Stream) # "Panic"
    /\ phase = "open" =>
          /\ current_columns # None
          /\ columns(Stream) # "Panic"
    /\ \A i \in DOMAIN out : out[i].tag = "Row" => out[i].columns # <<>>
    /\ (call.op \in {"poll_next", "into_vec", "into_first"} /\ phase = "panicked") =>
          tokens[pos].kind # "Row"
    /\ call.op = "columns" => call.ret # "Panic"

\* A terminator with MORE came ahead of the first NewResultset, a Row was
\* yielded and the stream reached HasNext, where columns() was called.
C17_Witness ==
    /\ tokens # <<>>
    /\ tokens[1].kind \in DoneFamily /\ tokens[1].more
    /\ state = "HasNext"
    /\ \E i \in DOMAIN out : out[i].tag = "Row"
    /\ call.op = "columns"
    /\ call.ret = previous_columns[1]

----------------------------------------------------------------------------
(* C18 *)

\* fetch_metadata called on a handle that is already open: the method takes
\* &mut self and reads on from wherever the source stands, in whatever state
\* the stream is.
FetchMetadataAgain ==
    /\ phase = "open"
    /\ LET r == fetch_metadata(Stream)
       IN  /\ SetStream(r.s)
           /\ phase' = CASE r.res = "Ok" -> "open"
                         [] r.res = "Spin" -> "spinning"
                         [] OTHER -> "failed"
           /\ call' = [op |-> "fetch_metadata", pre |-> Stream, ret |-> r.res]
           /\ entered' = IF r.res = "Ok" THEN r.s.pos ELSE entered
    /\ UNCHANGED <<tokens, out>>

NextRefetch ==
    \/ Next
    \/ FetchMetadataAgain

\* The handle with fetch_metadata callable at any time.
SpecRefetch == Init /\ [][NextRefetch]_vars

\* C18: a fetch_metadata that takes a NewResultset token stores its schema
\* in the current slot and leaves the state as it was before the call,
\* whichever state that was.
C18_Frame ==
    (call.op = "fetch_metadata" /\ call.ret = "Ok") =>
        /\ current_columns = Some(tokens[pos].columns)
        /\ state = call.pre.state

----------------------------------------------------------------------------
(* C19 *)

\* A read that ran into end-of-stream: a poll_next made in a state in which
\* it reads the source, or an into_first, that returned end-of-stream.
C19_Ended ==
    /\ call.op \in {"poll_next", "into_first"}
    /\ call.pre.state \in {"Initial", "HasPotentiallyNext"}
    /\ IF call.op = "poll_next" THEN call.ret = EOS ELSE call.ret.res = "Ok"

\* The NewResultset token at wire index h confirms a next result set: the
\* last terminator or header taken since the caller entered the result set
\* is a terminator with MORE.
Confirms(h) ==
    LET prior == TermIn(entered + 1, h - 1) \cup KindIn("NewResultset", entered + 1, h - 1)
    IN  /\ tokens[h].kind = "NewResultset"
        /\ prior # {}
        /\ tokens[Max(prior)].kind \in DoneFamily
        /\ tokens[Max(prior)].more

\* The last token taken is a terminator without MORE and the state is Done.
AtLast == state = "Done" /\ tokens[pos].kind \in DoneFamily /\ ~tokens[pos].more

\* The last token taken is the first NewResultset behind a terminator with
\* MORE and the state is HasNext.
AtLookahead == state = "HasNext" /\ Confirms(pos)

\* No token at which a read ends lies among the tokens a..b.
NoStopIn(a, b) ==
    \A i \in a..b :
        /\ ~(tokens[i].kind \in DoneFamily /\ ~tokens[i].more)
        /\ ~Confirms(i)

\* C19 as stated: where a read runs into end-of-stream the tokens taken end
\* with the terminator without MORE or with the first NewResultset behind a
\* terminator with MORE, and into_first returns the rows of the first result
\* set, those ahead of its terminator.
C19_AsStated ==
    C19_Ended =>
        /\ AtLast \/ AtLookahead
        /\ NoStopIn(call.pre.pos + 1, pos - 1)
        /\ call.op = "into_first" =>
              Data(call.ret.rows) = WireRows(call.pre.pos + 1, LastOf(entered))

\* C19, amended: where a read runs into end-of-stream the tokens taken end
\* with the terminator without MORE (state Done), with the first
\* NewResultset behind a terminator with MORE (state HasNext), or with the
\* last token of a source that reports its end (state Initial or
\* HasPotentiallyNext); no token behind that one has been taken, so in
\* HasNext nothing of the result set behind the lookahead header; into_first
\* returns the Row tokens up to there and reads no further. Where the
\* script is a batch of result sets and the handle is as the client hands
\* it out, these are the rows of the first result set, and no token behind
\* the header of the second one has been taken.
C19_Lookahead ==
    C19_Ended =>
        /\ \/ AtLast
           \/ AtLookahead
           \/ pos = Len(tokens) /\ state \in {"Initial", "HasPotentiallyNext"}
        /\ NoStopIn(call.pre.pos + 1, pos - 1)
        /\ call.op = "into_first" =>
              /\ Data(call.ret.rows) = WireRows(call.pre.pos + 1, pos)
              /\ (Batch /\ call.pre.pos = Min(Headers) /\ call.pre.state = "Initial") =>
                    /\ Data(call.ret.rows) = WireRows(Header(1) + 1, LastOf(Header(1)))
                    /\ Cardinality(Headers) > 1 => pos <= Header(2)

\* into_first returned the row of the first of two result sets and left the
\* rows behind the lookahead header unread.
C19_Witness ==
    /\ C19_Ended
    /\ call.op = "into_first"
    /\ AtLookahead
    /\ call.ret.rows # <<>>
    /\ KindIn("Row", pos + 1, Len(tokens)) # {}

----------------------------------------------------------------------------
(* C20 *)

\* C20: fetch_metadata returns on every script: with success, with the
\* protocol error or with an error of the source; where the source ends
\* ahead of any NewResultset or Done it does not succeed.
C20_Terminates ==
    call.op = "fetch_metadata" =>
        /\ call.ret \in {"Ok", "Protocol", "Err"}
        /\ (\A i \in DOMAIN tokens : tokens[i].kind \notin {"NewResultset", "Done", "Err"}) =>
              call.ret = "Protocol"

====
